---------------------------- MODULE Spec2Model ----------------------------
(* Model of app.py: a Streamlit script that is re-evaluated top to bottom  *)
(* on every user interaction.  Text is modelled as a sequence of           *)
(* one-character strings, so that strip, rsplit, isdigit, quote_plus and   *)
(* the CSV writer are computed character by character.                     *)
EXTENDS Integers, Sequences, FiniteSets, TLC

VARIABLES widgets, session_state, run, agent_calls, clock

vars == <<widgets, session_state, run, agent_calls, clock>>

(***************************************************************************)
(* Bounds of the model.                                                    *)
(***************************************************************************)
MaxHostLen == 4
MaxHistory == 2
MaxMessages == 4

(***************************************************************************)
(* Text helpers.                                                           *)
(***************************************************************************)
Range(s) == {s[i] : i \in 1..Len(s)}

IsPrefix(s, t) == Len(s) <= Len(t) /\ SubSeq(t, 1, Len(s)) = s

Last(s) == s[Len(s)]

RECURSIVE Flatten(_)
Flatten(ss) == IF ss = <<>> THEN <<>> ELSE Head(ss) \o Flatten(Tail(ss))

\* sep.join(parts)
RECURSIVE Join(_, _)
Join(sep, parts) ==
    IF parts = <<>> THEN <<>>
    ELSE IF Len(parts) = 1 THEN parts[1]
    ELSE parts[1] \o sep \o Join(sep, Tail(parts))

\* All texts over an alphabet, of length at most n.
RECURSIVE TextsUpTo(_, _)
TextsUpTo(alphabet, n) ==
    IF n = 0 THEN {<<>>}
    ELSE LET shorter == TextsUpTo(alphabet, n - 1)
         IN  shorter \cup {Append(t, c) : t \in shorter, c \in alphabet}

\* ASCII 32..95 and 97..126 (the grave accent, 96, is left out).
PrintableLow ==
    <<" ","!","\"","#","$","%","&","'","(",")","*","+",",","-",".","/","0",
      "1","2","3","4","5","6","7","8","9",":",";","<","=",">","?","@","A",
      "B","C","D","E","F","G","H","I","J","K","L","M","N","O","P","Q","R",
      "S","T","U","V","W","X","Y","Z","[","\\","]","^","_">>

PrintableHigh ==
    <<"a","b","c","d","e","f","g","h","i","j","k","l","m","n","o","p","q","r","s","t",
      "u","v","w","x","y","z","{","|","}","~">>

\* Code point of an ASCII character.
Ord(c) ==
    IF c = "\t" THEN 9
    ELSE IF c = "\n" THEN 10
    ELSE IF c = "\r" THEN 13
    ELSE IF c \in Range(PrintableLow)
         THEN 31 + CHOOSE i \in 1..Len(PrintableLow) : PrintableLow[i] = c
    ELSE 96 + CHOOSE i \in 1..Len(PrintableHigh) : PrintableHigh[i] = c

Digits == {"0","1","2","3","4","5","6","7","8","9"}

Whitespace == {" ", "\t", "\n", "\r"}

\* str.strip()
RECURSIVE LStrip(_)
LStrip(s) ==
    IF s # <<>> /\ Head(s) \in Whitespace THEN LStrip(Tail(s)) ELSE s

RECURSIVE RStrip(_)
RStrip(s) ==
    IF s # <<>> /\ Last(s) \in Whitespace
    THEN RStrip(SubSeq(s, 1, Len(s) - 1))
    ELSE s

Strip(s) == RStrip(LStrip(s))

\* Variant of isdigit that takes the empty text for a number.
isdigit_empty_ok(s) == \A i \in 1..Len(s) : s[i] \in Digits

\* str.isdigit() on ASCII text: every character a digit and at least one.
isdigit(s) == s # <<>> /\ \A i \in 1..Len(s) : s[i] \in Digits

\* c in s
contains(c, s) == \E i \in 1..Len(s) : s[i] = c

RECURSIVE RFind(_, _, _)
RFind(s, sep, i) ==
    IF i = 0 THEN 0
    ELSE IF s[i] = sep THEN i
    ELSE RFind(s, sep, i - 1)

RECURSIVE LFind(_, _, _)
LFind(s, sep, i) ==
    IF i > Len(s) THEN 0
    ELSE IF s[i] = sep THEN i
    ELSE LFind(s, sep, i + 1)

SplitAt(s, k) == <<SubSeq(s, 1, k - 1), SubSeq(s, k + 1, Len(s))>>

\* Variant of rsplit1 that splits at the first separator, as s.split(sep, 1).
split1(s, sep) == SplitAt(s, LFind(s, sep, 1))

\* s.rsplit(sep, 1) for a one-character separator that occurs in s:
\* the text before and the text after the last separator.
rsplit1(s, sep) == SplitAt(s, RFind(s, sep, Len(s)))

(***************************************************************************)
(* urllib.parse.quote_plus.                                                *)
(***************************************************************************)
Letters ==
    {"A","B","C","D","E","F","G","H","I","J","K","L","M","N","O","P","Q","R",
     "S","T","U","V","W","X","Y","Z","a","b","c","d","e","f","g","h","i","j",
     "k","l","m","n","o","p","q","r","s","t","u","v","w","x","y","z"}

AlwaysSafe == Letters \cup Digits \cup {"_", ".", "-", "~"}

HexDigits ==
    <<"0","1","2","3","4","5","6","7","8","9","A","B","C","D","E","F">>

PercentEscape(c) ==
    <<"%", HexDigits[(Ord(c) \div 16) + 1], HexDigits[(Ord(c) % 16) + 1]>>

\* quote_plus(s): unreserved characters are kept, a space becomes "+",
\* every other character becomes %XX.
RECURSIVE quote_plus(_)
quote_plus(s) ==
    IF s = <<>> THEN <<>>
    ELSE LET c == Head(s)
         IN  (IF c \in AlwaysSafe THEN <<c>>
              ELSE IF c = " " THEN <<"+">>
              ELSE PercentEscape(c))
             \o quote_plus(Tail(s))

(***************************************************************************)
(* Sidebar: mode selection and database discovery.                         *)
(***************************************************************************)
LOCALDB == "USE_LOCALDB"
MYSQL == "USE_MYSQL"

radio_opt == <<"Use SQLite 3 Database", "Connect to your MySQL Database">>

NoneDb == [name |-> "None", suffix |-> ""]

\* get_available_databases: the files of the directory listing whose
\* suffix is a SQLite extension, one pass over the listing per extension.
get_available_databases(listing) ==
    Flatten([e \in 1..3 |->
        SelectSeq(listing,
                  LAMBDA f : f.suffix = <<".db", ".sqlite", ".sqlite3">>[e])])

(***************************************************************************)
(* configure_db.                                                           *)
(***************************************************************************)
Element(kind, text, data) == [kind |-> kind, text |-> text, data |-> data]

ErrorElement(text) == Element("error", text, <<>>)

MYSQL_SCHEME ==
    <<"m","y","s","q","l","+","p","y","m","y","s","q","l",":","/","/">>

DEFAULT_PORT == <<"3","3","0","6">>

\* What configure_db did: halt is "none" when it returned a database
\* handle and the reason of st.stop() otherwise; rendered lists the
\* st.write / st.error elements in order; built tells whether the
\* connection string was assembled and attempted whether the driver was
\* asked to connect.
NoConfig ==
    [halt |-> "none", rendered |-> <<>>, built |-> FALSE,
     connection_string |-> <<>>, attempted |-> FALSE,
     host |-> <<>>, port |-> <<>>, encoded_password |-> <<>>,
     db |-> "None"]

\* Variant of MissingMySQLDetails that forgets the database name.
MissingMySQLDetailsNoDb(mysql_host, mysql_user, mysql_password, mysql_db) ==
    ~(mysql_host # <<>> /\ mysql_user # <<>> /\ mysql_password # <<>>)

\* not (mysql_host and mysql_user and mysql_password and mysql_db)
MissingMySQLDetails(mysql_host, mysql_user, mysql_password, mysql_db) ==
    ~(/\ mysql_host # <<>>
      /\ mysql_user # <<>>
      /\ mysql_password # <<>>
      /\ mysql_db # <<>>)

\* Variant of HostHasAt that only looks at the first character.
HostStartsWithAt(host) == host # <<>> /\ host[1] = "@"

\* '@' in mysql_host
HostHasAt(host) == contains("@", host)

\* Host and port of the stripped host text; ok is FALSE when the embedded
\* port is not numeric.
SplitHostPort(parts) ==
    [ok |-> isdigit(parts[2]), host |-> parts[1], port |-> parts[2]]

ResolveHostPort(mysql_host) ==
    IF contains(":", mysql_host)
    THEN SplitHostPort(rsplit1(mysql_host, ":"))
    ELSE [ok |-> TRUE, host |-> mysql_host, port |-> DEFAULT_PORT]

\* f"mysql+pymysql://{mysql_user}:{encoded_password}@{host}:{port}/{mysql_db}"
ConnectionString(mysql_user, encoded_password, host, port, mysql_db) ==
    MYSQL_SCHEME \o mysql_user \o <<":">> \o encoded_password \o <<"@">>
        \o host \o <<":">> \o port \o <<"/">> \o mysql_db

configure_db_local(selected_db, driver) ==
    IF selected_db = NoneDb
    THEN [NoConfig EXCEPT
            !.halt = "no_database_selected",
            !.rendered = <<ErrorElement("No database selected")>>]
    ELSE LET connecting ==
                 Element("write", "Connecting to SQLite database", <<>>)
         IN  IF driver = "ok"
             THEN [NoConfig EXCEPT
                     !.rendered = <<connecting>>,
                     !.attempted = TRUE,
                     !.db = "sqlite_read_only"]
             ELSE [NoConfig EXCEPT
                     !.halt = "sqlite_connection_error",
                     !.rendered =
                         <<connecting,
                           ErrorElement("SQLite Connection Error")>>,
                     !.attempted = TRUE]

\* Lines 120-136: the connection string is assembled and shown, and the
\* driver is asked to connect.
ConnectMySQL(connection_string, host, port, encoded_password, driver) ==
    [NoConfig EXCEPT
       !.halt = IF driver = "ok" THEN "none" ELSE "mysql_connection_error",
       !.rendered =
           <<Element("write", "Connecting to MySQL with connection string",
                     connection_string),
             IF driver = "ok"
             THEN Element("write", "Successfully connected to MySQL.", <<>>)
             ELSE ErrorElement("MySQL Connection Error")>>,
       !.built = TRUE,
       !.connection_string = connection_string,
       !.attempted = TRUE,
       !.host = host,
       !.port = port,
       !.encoded_password = encoded_password,
       !.db = IF driver = "ok" THEN "mysql" ELSE "None"]

\* Lines 107-120, given the host and port the stripped text resolves to.
BuildAndConnect(resolved, mysql_user, encoded_password, mysql_db, driver) ==
    IF ~resolved.ok
    THEN [NoConfig EXCEPT
            !.halt = "port_not_numeric",
            !.rendered =
                <<ErrorElement("MySQL Connection Error: Port must be numeric.")>>]
    ELSE ConnectMySQL(ConnectionString(mysql_user, encoded_password,
                                       resolved.host, resolved.port,
                                       mysql_db),
                      resolved.host, resolved.port, encoded_password, driver)

\* Lines 104-136, given the stripped host.
ValidateAndConnect(stripped, mysql_user, mysql_password, mysql_db, driver) ==
    IF HostHasAt(stripped)
    THEN [NoConfig EXCEPT
            !.halt = "host_contains_at",
            !.rendered =
                <<ErrorElement("MySQL Connection Error: Host cannot contain '@' symbol.")>>]
    ELSE BuildAndConnect(ResolveHostPort(stripped), mysql_user,
                         quote_plus(mysql_password), mysql_db, driver)

configure_db_mysql(mysql_host, mysql_user, mysql_password, mysql_db, driver) ==
    IF MissingMySQLDetails(mysql_host, mysql_user, mysql_password, mysql_db)
    THEN [NoConfig EXCEPT
            !.halt = "missing_mysql_details",
            !.rendered =
                <<ErrorElement("Please provide all MySQL connection details.")>>]
    ELSE ValidateAndConnect(Strip(mysql_host), mysql_user, mysql_password,
                            mysql_db, driver)

configure_db(db_uri, selected_db, mysql_host, mysql_user, mysql_password, mysql_db, driver) ==
    IF db_uri = LOCALDB
    THEN configure_db_local(selected_db, driver)
    ELSE configure_db_mysql(mysql_host, mysql_user, mysql_password,
                            mysql_db, driver)

(***************************************************************************)
(* Prompt formatter, session state, query handling and exporter.           *)
(***************************************************************************)
SCHEMA_HINT_HEAD ==
    <<"D","a","t","a","b","a","s","e"," ","s","c","h","e","m","a"," ","i",
      "n","c","l","u","d","e","s"," ","t","a","b","l","e","s",":"," ">>

SCHEMA_HINT_TAIL ==
    <<"."," ","P","l","e","a","s","e"," ","p","r","o","v","i","d","e"," ",
      "a"," ","d","e","t","a","i","l","e","d",","," ","f","o","r","m","a",
      "t","t","e","d"," ","a","n","s","w","e","r",","," ","i","n","c","l",
      "u","d","i","n","g"," ","t","h","e"," ","r","e","l","e","v","a","n",
      "t"," ","d","a","t","a"," ","i","n"," ","a"," ","h","u","m","a","n",
      "-","r","e","a","d","a","b","l","e"," ","w","a","y",".">>

ANSWER_THE_QUESTION ==
    <<"\n","A","n","s","w","e","r"," ","t","h","e"," ","q","u","e","s","t",
      "i","o","n",":"," ">>

format_query_for_agent(user_query, schema) ==
    SCHEMA_HINT_HEAD \o Join(<<",", " ">>, schema) \o SCHEMA_HINT_TAIL
        \o ANSWER_THE_QUESTION \o user_query

GREETING ==
    <<"H","o","w"," ","c","a","n"," ","I"," ","h","e","l","p"," ","y","o",
      "u","?">>

Message(role, content) == [role |-> role, content |-> content]

GreetingMessage == Message("assistant", GREETING)

\* st.session_state is a mapping; a key is present once it was assigned.
Has(ss, key) == key \in DOMAIN ss

Put(ss, key, value) ==
    [k \in DOMAIN ss \cup {key} |-> IF k = key THEN value ELSE ss[k]]

\* Variant of InitSessionState that never resets the message log.
InitSessionStateNoClear(ss, clear) ==
    LET ss1 == IF ~Has(ss, "messages")
               THEN Put(ss, "messages", <<GreetingMessage>>)
               ELSE ss
    IN  IF ~Has(ss1, "chat_history")
        THEN Put(ss1, "chat_history", <<>>)
        ELSE ss1

\* Variant of InitSessionState in which Clear also resets the history log.
InitSessionStateClearAll(ss, clear) ==
    LET ss1 == IF ~Has(ss, "messages") \/ clear
               THEN Put(ss, "messages", <<GreetingMessage>>)
               ELSE ss
    IN  IF ~Has(ss1, "chat_history") \/ clear
        THEN Put(ss1, "chat_history", <<>>)
        ELSE ss1

\* Session state initialisation; clear is the value of the "Clear message
\* history" button, which is only evaluated when "messages" is present.
InitSessionState(ss, clear) ==
    LET ss1 == IF ~Has(ss, "messages") \/ clear
               THEN Put(ss, "messages", <<GreetingMessage>>)
               ELSE ss
    IN  IF ~Has(ss1, "chat_history")
        THEN Put(ss1, "chat_history", <<>>)
        ELSE ss1

\* datetime.now().strftime("%Y-%m-%d %H:%M:%S"); the clock counts the
\* seconds of one day, whose date is TODAY.
TODAY == <<"2","0","2","6","-","1","1","-","0","1">>

TwoDigits(n) == <<HexDigits[(n \div 10) + 1], HexDigits[(n % 10) + 1]>>

strftime(now) ==
    TODAY \o <<" ">> \o TwoDigits((now \div 3600) % 24) \o <<":">>
        \o TwoDigits((now \div 60) % 60) \o <<":">> \o TwoDigits(now % 60)

HistoryRecord(now, user_query, formatted_query, response) ==
    [timestamp |-> strftime(now),
     user_query |-> user_query,
     sql_query |-> formatted_query,
     response |-> response]

NoQueryResult(ss) ==
    [ss |-> ss, invoked |-> FALSE, raised |-> FALSE, rendered |-> <<>>]

AppendTo(ss, key, item) == Put(ss, key, Append(ss[key], item))

\* The query handling when agent.run raises: the exception leaves the
\* script with the session state ss.
QueryRaised(ss, user_query) ==
    [ss |-> ss, invoked |-> TRUE, raised |-> TRUE,
     rendered |-> <<Element("chat_message", "user", user_query),
                    Element("exception", "agent", <<>>)>>]

\* The query handling when agent.run returns, ending with the session
\* state ss.
QueryAnswered(ss, user_query, response) ==
    [ss |-> ss, invoked |-> TRUE, raised |-> FALSE,
     rendered |-> <<Element("chat_message", "user", user_query),
                    Element("write", "response", response),
                    Element("write", "response", response)>>]

\* Variant of HandleQuery that logs the history record before the agent
\* is run.
HandleQueryLogFirst(ss, user_query, schema, agent, now) ==
    IF user_query = <<>> THEN NoQueryResult(ss)
    ELSE IF agent.raised
    THEN QueryRaised(
             AppendTo(AppendTo(ss, "messages", Message("user", user_query)),
                      "chat_history",
                      HistoryRecord(now, user_query,
                                    format_query_for_agent(user_query, schema),
                                    agent.response)),
             user_query)
    ELSE QueryAnswered(
             AppendTo(AppendTo(AppendTo(ss, "messages",
                                        Message("user", user_query)),
                               "messages",
                               Message("assistant", agent.response)),
                      "chat_history",
                      HistoryRecord(now, user_query,
                                    format_query_for_agent(user_query, schema),
                                    agent.response)),
             user_query, agent.response)

\* if user_query: ... ; agent is the outcome of agent.run, an uncaught
\* exception or a response text.  The user message is appended before the
\* agent runs, the assistant message and the history record after it
\* returned.
HandleQuery(ss, user_query, schema, agent, now) ==
    IF user_query = <<>> THEN NoQueryResult(ss)
    ELSE IF agent.raised
    THEN QueryRaised(AppendTo(ss, "messages", Message("user", user_query)),
                     user_query)
    ELSE QueryAnswered(
             AppendTo(AppendTo(AppendTo(ss, "messages",
                                        Message("user", user_query)),
                               "messages",
                               Message("assistant", agent.response)),
                      "chat_history",
                      HistoryRecord(now, user_query,
                                    format_query_for_agent(user_query, schema),
                                    agent.response)),
             user_query, agent.response)

\* The keys of a history record, in the order the record is built in.
HistoryFields ==
    <<[key |-> "timestamp",
       label |-> <<"t","i","m","e","s","t","a","m","p">>],
      [key |-> "user_query",
       label |-> <<"u","s","e","r","_","q","u","e","r","y">>],
      [key |-> "sql_query",
       label |-> <<"s","q","l","_","q","u","e","r","y">>],
      [key |-> "response",
       label |-> <<"r","e","s","p","o","n","s","e">>]>>

\* pd.DataFrame(chat_history).columns: the keys of the records in order of
\* first appearance; a frame built from an empty list has no columns.
DataFrameColumns(chat_history) ==
    IF chat_history = <<>> THEN <<>> ELSE HistoryFields

\* csv.QUOTE_MINIMAL: a field holding the delimiter, the quote character
\* or a line break is enclosed in quotes, its quotes doubled.
NeedsQuoting(field) ==
    \E i \in 1..Len(field) : field[i] \in {",", "\"", "\n", "\r"}

\* Every quote character of the field written twice (the field is halved
\* at each step, which keeps the evaluation shallow on long texts).
RECURSIVE DoubleQuotes(_)
DoubleQuotes(field) ==
    IF field = <<>> THEN <<>>
    ELSE IF Len(field) = 1
         THEN (IF field[1] = "\"" THEN <<"\"", "\"">> ELSE field)
    ELSE LET half == Len(field) \div 2
         IN  DoubleQuotes(SubSeq(field, 1, half))
             \o DoubleQuotes(SubSeq(field, half + 1, Len(field)))

CsvField(field) ==
    IF NeedsQuoting(field)
    THEN <<"\"">> \o DoubleQuotes(field) \o <<"\"">>
    ELSE field

CsvRow(fields) ==
    Join(<<",">>, [i \in 1..Len(fields) |-> CsvField(fields[i])]) \o <<"\n">>

CsvRows(columns, chat_history) ==
    CsvRow([i \in 1..Len(columns) |-> columns[i].label])
    \o Flatten([n \in 1..Len(chat_history) |->
                   CsvRow([i \in 1..Len(columns) |->
                              chat_history[n][columns[i].key]])])

\* to_csv: df.to_csv(index=False), the header row then one row per record.
to_csv(chat_history) == CsvRows(DataFrameColumns(chat_history), chat_history)

(***************************************************************************)
(* One evaluation of the script.                                           *)
(***************************************************************************)
NoAgent == [raised |-> FALSE, response |-> <<>>]

\* The record of an evaluation: its inputs (the Clear click, the submitted
\* question, the directory listing, the driver's and the agent's outcome)
\* and what it did.
NoRun ==
    [started |-> FALSE, clear |-> FALSE, user_query |-> <<>>,
     listing |-> <<>>, selected_db |-> NoneDb, driver |-> "unused",
     agent |-> NoAgent, halt |-> "none", rendered |-> <<>>,
     cfg |-> NoConfig, schema |-> <<>>, agent_created |-> FALSE,
     invoked |-> FALSE, raised |-> FALSE, button |-> FALSE,
     chat_input |-> FALSE, exported |-> FALSE]

SidebarElements(w) ==
    <<Element("radio", "Choose the DB which you want to chat", <<>>)>>
    \o (IF w.mode = 2
        THEN <<Element("text_input", "Provide MySQL Host", w.mysql_host),
               Element("text_input", "MySQL User", w.mysql_user),
               Element("text_input", "MySQL Password", <<>>),
               Element("text_input", "MySQL Database", w.mysql_db)>>
        ELSE <<>>)

\* if not available_dbs: st.error(...); st.stop()
NoDatabasesFound(available_dbs) == available_dbs = <<>>

MessageElements(messages) ==
    [i \in 1..Len(messages) |->
        Element("chat_message", messages[i].role, messages[i].content)]

\* What the chat pane did: button tells whether the Clear button was
\* rendered, ss1 is the session state after its initialisation and q the
\* outcome of the query handling.  An exception of the agent ends the
\* evaluation; otherwise the download button is rendered, its data being
\* to_csv of the history log as the evaluation leaves it (see csv_data).
ChatPaneResult(button, ss1, q) ==
    [ss |-> q.ss, button |-> button, invoked |-> q.invoked,
     raised |-> q.raised, exported |-> ~q.raised,
     rendered |->
         (IF button
          THEN <<Element("button", "Clear message history", <<>>)>>
          ELSE <<>>)
         \o MessageElements(ss1["messages"])
         \o <<Element("chat_input", "Ask anything from the database", <<>>)>>
         \o q.rendered
         \o (IF q.raised THEN <<>>
             ELSE <<Element("download_button", "chat_history.csv", <<>>)>>)]

ChatPaneFrom(button, ss1, user_query, schema, agent, now) ==
    ChatPaneResult(button, ss1,
                   HandleQuery(ss1, user_query, schema, agent, now))

\* The script from the session state initialisation to the download
\* button, entered once the database handle and the agent exist.  The
\* Clear button is evaluated only when "messages" is already present.
ChatPane(ss, clicked, user_query, schema, agent, now) ==
    ChatPaneFrom(Has(ss, "messages"),
                 InitSessionState(ss, Has(ss, "messages") /\ clicked),
                 user_query, schema, agent, now)

\* The record of an evaluation that went through configure_db.
Configured(base, selected_db, driver, cfg) ==
    [base EXCEPT
       !.selected_db = selected_db,
       !.driver = IF cfg.attempted THEN driver ELSE "unused",
       !.cfg = cfg,
       !.halt = cfg.halt,
       !.rendered = @ \o cfg.rendered]

ConnectSelected(base, db_uri, selected_db, w, driver) ==
    Configured(base, selected_db, driver,
               configure_db(db_uri, selected_db, w.mysql_host, w.mysql_user,
                            w.mysql_password, w.mysql_db, driver))

ConnectFrom(base, db_uri, available_dbs, w, driver) ==
    IF db_uri = LOCALDB /\ NoDatabasesFound(available_dbs)
    THEN [base EXCEPT
            !.halt = "no_databases",
            !.rendered = Append(@, ErrorElement(
                "No SQLite databases found in the database/local directory!"))]
    ELSE ConnectSelected(base, db_uri,
                         IF db_uri = LOCALDB /\ available_dbs # <<>>
                         THEN available_dbs[1] ELSE NoneDb,
                         w, driver)

\* The script up to the database handle: mode selection, database
\* discovery (the select box stays on its first option) and configure_db.
Connect(w, listing, driver) ==
    ConnectFrom([NoRun EXCEPT
                   !.started = TRUE, !.listing = listing,
                   !.rendered = SidebarElements(w)],
                IF w.mode = 2 THEN MYSQL ELSE LOCALDB,
                get_available_databases(listing), w, driver)

\* The record and session state of an evaluation that reached the chat
\* pane.
Finished(connected, schema_raised, schema, agent, pane) ==
    [ss |-> pane.ss,
     run |-> [connected EXCEPT
                !.schema = schema,
                !.agent = IF pane.invoked THEN agent ELSE NoAgent,
                !.agent_created = TRUE,
                !.invoked = pane.invoked,
                !.raised = pane.raised,
                !.button = pane.button,
                !.chat_input = TRUE,
                !.exported = pane.exported,
                !.rendered =
                    @ \o <<IF schema_raised
                           THEN ErrorElement("Error retrieving schema")
                           ELSE Element("write", "Database Schema:",
                                        Join(<<",", " ">>, schema))>>
                      \o pane.rendered]]

\* The script after configure_db: schema, agent, chat pane.
ScriptFrom(connected, ss, clicked, user_query, schema_raised, schema, agent, now) ==
    IF connected.halt # "none"
    THEN [ss |-> ss, run |-> connected]
    ELSE Finished(connected, schema_raised, schema, agent,
                  ChatPane(ss, clicked, user_query, schema, agent, now))

\* The whole script: ss is st.session_state before the evaluation, w the
\* sidebar widget values, clicked and user_query the values the Clear
\* button and the chat input return in this evaluation.
Script(ss, w, clicked, user_query, env, now) ==
    ScriptFrom([Connect(w, env.listing, env.driver) EXCEPT
                  !.clear = clicked, !.user_query = user_query],
               ss, clicked, user_query, env.schema.raised,
               IF env.schema.raised THEN <<>> ELSE env.schema.tables,
               env.agent, now)

(***************************************************************************)
(* Inputs of the model: what the user types and what the environment       *)
(* (file system, database driver, agent, clock) answers.                   *)
(***************************************************************************)
Chinook == [name |-> "chinook", suffix |-> ".db"]
Sales == [name |-> "sales", suffix |-> ".sqlite3"]
Notes == [name |-> "notes", suffix |-> ".txt"]

Listings == {<<>>, <<Notes>>, <<Sales, Notes, Chinook>>}

Drivers == {"ok", "error"}

SchemaOutcomes ==
    {[raised |-> TRUE, tables |-> <<>>],
     [raised |-> FALSE, tables |-> <<<<"t","1">>, <<"t","2">>>>]}

Responses == {<<"4",",","\n","2">>}

AgentOutcomes ==
    {[raised |-> TRUE, response |-> <<>>]}
    \cup {[raised |-> FALSE, response |-> r] : r \in Responses}

Queries == {<<"q">>, <<"w","h","o","?">>}

\* The widgets' default values: the first radio option, empty text inputs.
DefaultWidgets ==
    [mode |-> 1, mysql_host |-> <<>>, mysql_user |-> <<>>,
     mysql_password |-> <<>>, mysql_db |-> <<>>]

Form(host, user, password, db) ==
    [mode |-> 2, mysql_host |-> host, mysql_user |-> user,
     mysql_password |-> password, mysql_db |-> db]

\* The contents of the MySQL form the user passes through: the fields
\* are filled in one at a time, and the host is then retyped.
TypedForms ==
    {Form(<<>>, <<>>, <<>>, <<>>),
     Form(<<"h">>, <<>>, <<>>, <<>>),
     Form(<<"h">>, <<"u">>, <<>>, <<>>),
     Form(<<"h">>, <<"u">>, <<"p">>, <<>>),
     Form(<<"h">>, <<"u">>, <<"p">>, <<"d">>),
     Form(<<"h","@">>, <<"u">>, <<"p">>, <<"d">>),
     Form(<<"h",":">>, <<"u">>, <<"p">>, <<"d">>)}

FormFields == {"mysql_host", "mysql_user", "mysql_password", "mysql_db"}

\* The data of the download button: to_csv of the history log at the end
\* of the evaluation.
csv_data == to_csv(IF Has(session_state, "chat_history")
                   THEN session_state["chat_history"] ELSE <<>>)

Messages(ss) == IF Has(ss, "messages") THEN ss["messages"] ELSE <<>>

History(ss) == IF Has(ss, "chat_history") THEN ss["chat_history"] ELSE <<>>

(***************************************************************************)
(* The session: every user action re-evaluates the whole script.           *)
(***************************************************************************)
Init ==
    /\ widgets = DefaultWidgets
    /\ session_state = <<>>
    /\ run = NoRun
    /\ agent_calls = <<>>
    /\ clock = 0

\* One evaluation with sidebar values w, in which the Clear button returns
\* clicked and the chat input returns user_query.  The environment's
\* answers are drawn only where the evaluation asks for them; the clock
\* has advanced by a second when a history record is stamped.
Rerun(w, clicked, user_query) ==
    \E listing \in (IF w.mode = 2 THEN {<<>>} ELSE Listings),
       driver \in Drivers :
      \E connected \in {Connect(w, listing, driver)} :
        /\ ~connected.cfg.attempted => driver = "ok"
        /\ \E schema \in (IF connected.halt = "none" THEN SchemaOutcomes
                          ELSE {[raised |-> TRUE, tables |-> <<>>]}),
              agent \in (IF connected.halt = "none" /\ user_query # <<>>
                         THEN AgentOutcomes ELSE {NoAgent}) :
            \E r \in {Script(session_state, w, clicked, user_query,
                             [listing |-> listing, driver |-> driver,
                              schema |-> schema, agent |-> agent],
                             clock + 1)} :
                /\ widgets' = w
                /\ session_state' = r.ss
                /\ run' = r.run
                /\ agent_calls' =
                       IF r.run.invoked /\ ~r.run.raised
                       THEN Append(agent_calls,
                                   [user_query |-> user_query,
                                    response |-> agent.response])
                       ELSE agent_calls
                /\ clock' = IF r.run.invoked /\ ~r.run.raised
                            THEN clock + 1 ELSE clock

\* Room left in the logs for one more question.
RoomForQuery ==
    /\ Len(Messages(session_state)) + 2 <= MaxMessages
    /\ Len(History(session_state)) < MaxHistory

\* The page is opened: the first evaluation of the session.
LoadPage ==
    /\ ~run.started
    /\ Rerun(widgets, FALSE, <<>>)

\* The user picks the other radio option.  The MySQL text inputs exist
\* in MySQL mode only: they start empty when that mode is entered.
SelectMode ==
    /\ run.started
    /\ \E mode \in 1..Len(radio_opt) :
        /\ mode # widgets.mode
        /\ Rerun([DefaultWidgets EXCEPT !.mode = mode], FALSE, <<>>)

\* The user edits one of the MySQL text inputs.
EditCredentials ==
    /\ run.started
    /\ widgets.mode = 2
    /\ \E w \in TypedForms :
        /\ Cardinality({f \in FormFields : w[f] # widgets[f]}) = 1
        /\ Rerun(w, FALSE, <<>>)

\* The user presses "Clear message history", which the last evaluation
\* rendered.
PressClear ==
    /\ run.button
    /\ Rerun(widgets, TRUE, <<>>)

\* The user submits a question in the chat input, which the last
\* evaluation rendered.
SubmitQuery ==
    /\ run.chat_input
    /\ RoomForQuery
    /\ \E q \in Queries : Rerun(widgets, FALSE, q)

\* A Clear press and a submitted question reach the same evaluation.
PressClearAndSubmit ==
    /\ run.button
    /\ run.chat_input
    /\ RoomForQuery
    /\ \E q \in Queries : Rerun(widgets, TRUE, q)

\* The user presses the download button, which the last evaluation
\* rendered; the script is evaluated again with no other input.
DownloadHistory ==
    /\ run.exported
    /\ Rerun(widgets, FALSE, <<>>)

Next ==
    \/ LoadPage
    \/ SelectMode
    \/ EditCredentials
    \/ PressClear
    \/ SubmitQuery
    \/ PressClearAndSubmit
    \/ DownloadHistory

Spec == Init /\ [][Next]_vars

(***************************************************************************)
(* configure_db on its own: the form and the driver's answer are drawn     *)
(* from bounded sets and the function is applied once.                     *)
(***************************************************************************)
HostAlphabet == {"h", "1", ":", "@", " "}

CfgHosts == TextsUpTo(HostAlphabet, MaxHostLen)

CfgUsers == {<<>>, <<"u">>}

CfgPasswords ==
    {<<>>, <<"p">>, <<"p","@","s","s","/","w","o","r","d">>,
     <<"a"," ","b">>, <<"1","+","1">>, <<"5","0","%",":">>}

CfgDatabases == {<<>>, <<"d">>}

InitCfg ==
    /\ widgets \in {DefaultWidgets}
                   \cup {Form(h, u, pw, d) : h \in CfgHosts, u \in CfgUsers,
                                             pw \in CfgPasswords,
                                             d \in CfgDatabases}
    /\ session_state = <<>>
    /\ run = NoRun
    /\ agent_calls = <<>>
    /\ clock = 0

ConfigureDb ==
    /\ ~run.started
    /\ \E driver \in Drivers,
          selected_db \in (IF widgets.mode = 2 THEN {NoneDb}
                           ELSE {NoneDb, Chinook}) :
        \E cfg \in {configure_db(IF widgets.mode = 2 THEN MYSQL ELSE LOCALDB,
                                 selected_db, widgets.mysql_host,
                                 widgets.mysql_user, widgets.mysql_password,
                                 widgets.mysql_db, driver)} :
            /\ ~cfg.attempted => driver = "ok"
            /\ run' = Configured([NoRun EXCEPT !.started = TRUE],
                                 selected_db, driver, cfg)
    /\ UNCHANGED <<widgets, session_state, agent_calls, clock>>

NextCfg == ConfigureDb

SpecCfg == InitCfg /\ [][NextCfg]_vars

(***************************************************************************)
(* Properties of configure_db, stated on the form as the user typed it.    *)
(***************************************************************************)
Networked == run.started /\ widgets.mode = 2

CredentialsGiven ==
    /\ widgets.mysql_user # <<>>
    /\ widgets.mysql_password # <<>>
    /\ widgets.mysql_db # <<>>

\* The host as typed, without its surrounding whitespace.
TypedHost == Strip(widgets.mysql_host)

\* The position of the last ":" of a text, 0 when it has none.
LastColonOf(h) ==
    IF \E i \in 1..Len(h) : h[i] = ":"
    THEN CHOOSE i \in 1..Len(h) :
             /\ h[i] = ":"
             /\ \A j \in (i + 1)..Len(h) : h[j] # ":"
    ELSE 0

HostPartOf(h) ==
    IF LastColonOf(h) = 0 THEN h ELSE SubSeq(h, 1, LastColonOf(h) - 1)

PortPartOf(h) ==
    IF LastColonOf(h) = 0 THEN <<>>
    ELSE SubSeq(h, LastColonOf(h) + 1, Len(h))

LastColon == LastColonOf(TypedHost)

HostPart == HostPartOf(TypedHost)

PortPart == PortPartOf(TypedHost)

AllDigits(t) == t # <<>> /\ Range(t) \subseteq Digits

\* The evaluation stopped on an error, before any connection string.
RejectedBeforeConnecting ==
    /\ run.halt # "none"
    /\ run.rendered # <<>>
    /\ Last(run.rendered).kind = "error"
    /\ ~run.cfg.built
    /\ run.cfg.connection_string = <<>>
    /\ ~run.cfg.attempted

\* C3: a networked host containing "@", the other credential fields being
\* non-empty, is rejected with an error before any connection string is
\* built and before any connection is attempted.
C3_HostWithAtRejected ==
    (Networked /\ CredentialsGiven /\ "@" \in Range(widgets.mysql_host))
        => RejectedBeforeConnecting

C3_Witness ==
    /\ Networked
    /\ CredentialsGiven
    /\ Len(widgets.mysql_host) >= 3
    /\ widgets.mysql_host[1] = "h"
    /\ "@" \in Range(widgets.mysql_host)
    /\ run.halt = "host_contains_at"

\* C4: a networked host that embeds a port (contains ":") whose port part,
\* the text after the last ":" of the host without its surrounding
\* whitespace, is not made only of digits (the empty port part included)
\* is rejected with an error and no connection is attempted.
C4_NonNumericPortRejected ==
    (Networked /\ LastColon # 0 /\ ~AllDigits(PortPart))
        => RejectedBeforeConnecting

C4_Witness ==
    /\ Networked
    /\ CredentialsGiven
    /\ LastColon # 0
    /\ PortPart = <<>>
    /\ HostPart # <<>>
    /\ run.halt = "port_not_numeric"

\* An accepted networked form: all fields given, no "@" in the host, and
\* the embedded port, if any, numeric.
Accepted ==
    /\ Networked
    /\ widgets.mysql_host # <<>>
    /\ CredentialsGiven
    /\ "@" \notin Range(widgets.mysql_host)
    /\ LastColon # 0 => AllDigits(PortPart)

ExpectedPort == IF LastColon = 0 THEN <<"3","3","0","6">> ELSE PortPart

\* C5: for an accepted networked host, the stripped text is split at its
\* last ":" into host and numeric port, or is the host with port 3306
\* when it has no ":", and exactly this host and port are placed in the
\* connection string.
C5_HostPortResolved ==
    Accepted =>
        /\ run.cfg.built
        /\ run.cfg.host = HostPart
        /\ run.cfg.port = ExpectedPort
        /\ run.cfg.connection_string =
               MYSQL_SCHEME \o widgets.mysql_user \o <<":">>
                   \o run.cfg.encoded_password \o <<"@">> \o HostPart
                   \o <<":">> \o ExpectedPort \o <<"/">> \o widgets.mysql_db

C5_Witness ==
    /\ Accepted
    /\ Len(PortPart) >= 1
    /\ ":" \in Range(HostPart)
    /\ run.cfg.built
    /\ run.cfg.port = PortPart

C5_WitnessDefaultPort ==
    /\ Accepted
    /\ LastColon = 0
    /\ run.cfg.port = DEFAULT_PORT

\* Percent-decoding, as urllib.parse.unquote does it on ASCII text.
Chr(n) ==
    IF n = 9 THEN "\t"
    ELSE IF n = 10 THEN "\n"
    ELSE IF n = 13 THEN "\r"
    ELSE IF n <= 95 THEN PrintableLow[n - 31]
    ELSE PrintableHigh[n - 96]

IsChr(n) == n \in {9, 10, 13} \/ (n >= 32 /\ n <= 126 /\ n # 96)

HexValue(c) ==
    IF c \in Digits THEN Ord(c) - 48
    ELSE IF c \in {"A","B","C","D","E","F"} THEN Ord(c) - 55
    ELSE IF c \in {"a","b","c","d","e","f"} THEN Ord(c) - 87
    ELSE -1

\* unquote(s): %XX becomes the character XX; everything else is kept.
RECURSIVE unquote(_)
unquote(s) ==
    IF s = <<>> THEN <<>>
    ELSE IF /\ Head(s) = "%"
            /\ Len(s) >= 3
            /\ HexValue(s[2]) >= 0
            /\ HexValue(s[3]) >= 0
            /\ IsChr(16 * HexValue(s[2]) + HexValue(s[3]))
         THEN <<Chr(16 * HexValue(s[2]) + HexValue(s[3]))>>
              \o unquote(SubSeq(s, 4, Len(s)))
         ELSE <<Head(s)>> \o unquote(Tail(s))

\* The reserved characters of a URI (RFC 3986 gen-delims and sub-delims),
\* with the percent sign and the space.
ReservedChars ==
    {":", "/", "?", "#", "[", "]", "@", "!", "$", "&", "'", "(", ")", "*",
     "+", ",", ";", "=", "%", " "}

\* C6: the password appears percent-encoded in the password position of
\* the connection string, none of its reserved characters appears raw
\* there, and percent-decoding the encoded text gives the password back.
C6_PasswordRoundTrip ==
    (Networked /\ run.cfg.built) =>
        /\ IsPrefix(MYSQL_SCHEME \o widgets.mysql_user \o <<":">>
                        \o run.cfg.encoded_password \o <<"@">>,
                    run.cfg.connection_string)
        /\ \A c \in Range(widgets.mysql_password) \cap ReservedChars :
               c \notin Range(run.cfg.encoded_password)
        /\ unquote(run.cfg.encoded_password) = widgets.mysql_password

\* C8: in networked mode a connection is attempted only with host, port,
\* user, password and database name all non-empty; an empty field, or a
\* host that is empty once stripped, stops the evaluation with an error
\* and no connection string is built.
C8_AllFieldsNonEmpty ==
    Networked =>
        /\ run.cfg.attempted =>
               /\ run.cfg.host # <<>>
               /\ run.cfg.port # <<>>
               /\ CredentialsGiven
        /\ (~CredentialsGiven \/ TypedHost = <<>>) =>
               /\ run.halt # "none"
               /\ ~run.cfg.built

(***************************************************************************)
(* Properties of the session.                                              *)
(***************************************************************************)
\* C1: the history log only grows by appending; an evaluation in which
\* only Clear was pressed leaves it exactly as it was, and once it
\* exists no evaluation removes or resets it.
C1_HistoryAppendOnly ==
    [][/\ IsPrefix(History(session_state), History(session_state'))
       /\ Has(session_state, "chat_history")
              => Has(session_state', "chat_history")
       /\ (run'.clear /\ run'.user_query = <<>>)
              => /\ Has(session_state, "chat_history")
                 /\ session_state'["chat_history"]
                        = session_state["chat_history"]]_vars

C1_Witness ==
    /\ run.clear
    /\ run.halt = "none"
    /\ run.user_query = <<>>
    /\ Messages(session_state) = <<GreetingMessage>>
    /\ Len(History(session_state)) = MaxHistory

\* The messages an evaluation appends for the question it was given.
AppendedFor(r) ==
    IF r.user_query = <<>> THEN <<>>
    ELSE IF r.agent.raised THEN <<Message("user", r.user_query)>>
    ELSE <<Message("user", r.user_query),
           Message("assistant", r.agent.response)>>

\* C2 as claimed: the message log is append-only, except that every
\* evaluation in which Clear was pressed ends with the log equal to the
\* single greeting.
C2_ClearAlwaysResets ==
    [][IF run'.clear
       THEN Messages(session_state') = <<GreetingMessage>>
       ELSE IsPrefix(Messages(session_state), Messages(session_state'))]_vars

\* C2 as amended: the message log is append-only, except that an
\* evaluation in which Clear was pressed and which reaches the Clear
\* button (no halting error before it) resets the log to the single
\* greeting, so that it ends with the greeting followed by the messages
\* appended for a question submitted in the same evaluation, if any; a
\* Clear press in an evaluation that halts earlier leaves the log as it
\* was.
C2_ClearResetsWhenReached ==
    [][IF run'.clear /\ run'.halt = "none"
       THEN Messages(session_state')
                = <<GreetingMessage>> \o AppendedFor(run')
       ELSE /\ IsPrefix(Messages(session_state), Messages(session_state'))
            /\ run'.clear => session_state' = session_state]_vars

C2_Witness ==
    /\ run.clear
    /\ run.halt = "none"
    /\ agent_calls # <<>>
    /\ Len(Messages(session_state)) = 1
    /\ Messages(session_state)[1].content = GREETING

C2_WitnessLostPress ==
    /\ run.clear
    /\ run.halt # "none"
    /\ Len(Messages(session_state)) > 1

\* The lines of a text: the pieces ended by a line break.
LineCount(text) == Cardinality({i \in 1..Len(text) : text[i] = "\n"})

FirstLine(text) ==
    IF \E i \in 1..Len(text) : text[i] = "\n"
    THEN SubSeq(text, 1,
                (CHOOSE i \in 1..Len(text) :
                     /\ text[i] = "\n"
                     /\ \A j \in 1..(i - 1) : text[j] # "\n") - 1)
    ELSE text

HeaderLine ==
    <<"t","i","m","e","s","t","a","m","p",",",
      "u","s","e","r","_","q","u","e","r","y",",",
      "s","q","l","_","q","u","e","r","y",",",
      "r","e","s","p","o","n","s","e">>

\* C7: the export of a history log of N records has exactly N+1 lines,
\* the first being the header row of the field names timestamp,
\* user_query, sql_query, response (a header-only output for the empty
\* log), whatever the records hold.
C7_ExportHasHeaderAndOneLinePerRecord ==
    run.exported =>
        /\ FirstLine(csv_data) = HeaderLine
        /\ LineCount(csv_data) = Len(History(session_state)) + 1

\* The halting error conditions, read off the inputs of an evaluation:
\* the widget values w and the record r of what the environment answered.
NoMatchingFile(listing) ==
    \A i \in 1..Len(listing) :
        listing[i].suffix \notin {".db", ".sqlite", ".sqlite3"}

HaltingCondition(w, r) ==
    \/ w.mode = 1 /\ NoMatchingFile(r.listing)
    \/ w.mode = 2 /\ \E f \in FormFields : w[f] = <<>>
    \/ w.mode = 2 /\ "@" \in Range(w.mysql_host)
    \/ /\ w.mode = 2
       /\ ":" \in Range(w.mysql_host)
       /\ ~AllDigits(PortPartOf(Strip(w.mysql_host)))
    \/ r.driver = "error"

\* C9: an evaluation in which a halting error condition occurs stops
\* there: the error is the last thing rendered, the agent is neither
\* created nor invoked, and the message log and the history log are left
\* as they were.
C9_HaltLeavesLogsUntouched ==
    [][HaltingCondition(widgets', run') =>
          /\ run'.halt # "none"
          /\ Last(run'.rendered).kind = "error"
          /\ Cardinality({i \in 1..Len(run'.rendered) :
                             run'.rendered[i].kind = "error"}) = 1
          /\ ~run'.agent_created
          /\ ~run'.invoked
          /\ ~run'.chat_input
          /\ ~run'.exported
          /\ session_state' = session_state]_vars

C9_Witness ==
    /\ run.halt # "none"
    /\ HaltingCondition(widgets, run)
    /\ Len(Messages(session_state)) > 1
    /\ Len(History(session_state)) >= 1

CallsOf(history) ==
    [i \in 1..Len(history) |->
        [user_query |-> history[i].user_query,
         response |-> history[i].response]]

\* The message log an evaluation starts appending to.
MessagesBeforeQuery(r, ss) ==
    IF r.clear \/ ~Has(ss, "messages") THEN <<GreetingMessage>>
    ELSE ss["messages"]

\* C10: the history log holds one record per agent call that returned,
\* in call order, each with the user and assistant messages appended to
\* the message log for that call; a call that raises appends the user
\* message only and no history record.
C10_HistoryMatchesAgentCalls ==
    [][/\ CallsOf(History(session_state')) = agent_calls'
       /\ (run'.invoked /\ ~run'.raised) =>
              /\ Len(History(session_state'))
                     = Len(History(session_state)) + 1
              /\ Messages(session_state')
                     = MessagesBeforeQuery(run', session_state)
                       \o <<Message("user",
                                    Last(History(session_state')).user_query),
                            Message("assistant",
                                    Last(History(session_state')).response)>>
              /\ Last(History(session_state')).user_query = run'.user_query
              /\ Last(History(session_state')).response
                     = run'.agent.response
       /\ (run'.invoked /\ run'.raised) =>
              /\ History(session_state') = History(session_state)
              /\ Messages(session_state')
                     = Append(MessagesBeforeQuery(run', session_state),
                              Message("user", run'.user_query))
       /\ (run'.user_query # <<>> /\ run'.halt = "none") => run'.invoked
       /\ ~run'.invoked
              => History(session_state') = History(session_state)]_vars

\* Two user messages in a row, left by a call that raised, next to a
\* call that returned.
C10_Witness ==
    /\ \E i \in 1..(Len(Messages(session_state)) - 1) :
           /\ Messages(session_state)[i].role = "user"
           /\ Messages(session_state)[i + 1].role = "user"
    /\ Len(History(session_state)) >= 1
    /\ Last(Messages(session_state)).role = "assistant"
    /\ CallsOf(History(session_state)) = agent_calls

=============================================================================
